---- MODULE Spec2Model ----
(***************************************************************************)
(* State-machine model of booksim2's synthetic traffic manager             *)
(* (src/src/synthetictrafficmanager.cpp) and of the virtual-channel Buffer *)
(* (src/src/buffer.cpp).                                                   *)
(*                                                                         *)
(* The base class TrafficManager, the VC lane, the Stats collector and the *)
(* random source are not part of the sources at hand; where the model      *)
(* needs them they are written from the design document and are marked     *)
(* "base" / "collaborator" in the comments.                                *)
(***************************************************************************)
EXTENDS Integers, Sequences, FiniteSets, TLC

(* ------------------------------------------------------------------ *)
(* Bounds of the model                                                 *)
(* ------------------------------------------------------------------ *)

\* number of traffic classes of the modelled configuration (_classes)
_classes == 3
\* number of network nodes of the modelled configuration (_nodes)
_nodes == 2
\* the cycle counter _time is advanced up to this value
MaxTime == 1
\* at most this many transactions are started (cap on the base's _cur_tid)
MaxTid == 1
\* at most this many calls of _UpdateOverallStats are followed
MaxSims == 1

Classes == 0 .. (_classes - 1)
Nodes == 0 .. (_nodes - 1)
Pairs == 0 .. (_nodes * _nodes - 1)
Tids == 0 .. (MaxTid - 1)

VARIABLES
  \* ---- SyntheticTrafficManager and the base fields it uses ----
  _reply_class,          \* vector<int>, per class
  _request_class,        \* vector<int>, per class
  _measure_stats,        \* base: vector<int>, per class
  _time,                 \* base: current cycle
  _sim_state,            \* base: warming_up / running / draining
  _drain_time,           \* base: cycle at which draining began
  _qtime,                \* [class][node]
  _qdrained,             \* [class][node]
  _requests_outstanding, \* base: [class][node]
  _packet_seq_no,        \* base: [class][node]
  _partial_packets,      \* base: [class][node] -> queue of packets not yet in the network
  in_network,            \* packets handed to the network and not yet retired
  _cur_tid,              \* base: next transaction id
  _tlat_stats,           \* [class] -> samples held by the collector
  _pair_tlat,            \* [class][i*_nodes+j] -> samples held by the collector
  _overall_min_tlat,     \* [class]
  _overall_avg_tlat,     \* [class]
  _overall_max_tlat,     \* [class]
  total_sims,            \* number of _UpdateOverallStats calls so far
  tid_samples,           \* history: AddSample calls on a per-class collector, per transaction id
  issue_attempts,        \* history: [class][node] -> _IssuePacket calls made by the last _Inject
  retired_recorded,      \* history: classes of the packets retired with the record flag set
                         \* since the collectors were last cleared
  step_pc,               \* base: where the current cycle stands: "inject" / "network"
  aborted,               \* an assertion has failed; the process is gone
  \* ---- constructor walk-through (reply-class table) ----
  ctor_pc,               \* "loop" / "done" / "abort"
  ctor_c,                \* loop index c of the constructor's loop
  \* ---- packet-size sampling ----
  _packet_size,          \* sizes of the class looked at
  _packet_size_rate,     \* rates of the class looked at
  _packet_size_max_val,  \* max_val of the class looked at
  size_call,             \* the last _GetNextPacketSize call: draw and outcome
  \* ---- Buffer ----
  _vc,                   \* [lane index] -> queue of flits
  buf_call,              \* the last Buffer call and what it returned
  buf_added,             \* history: per index, the flits AddFlit accepted, in order
  buf_removed,           \* history: per index, the flits RemoveFlit returned, in order
  next_flit,             \* id of the next flit offered to the buffer
  \* ---- _PacketsOutstanding ----
  po_call                \* the last _PacketsOutstanding call and what it returned

tmVars == << _reply_class, _request_class, _measure_stats, _time, _sim_state,
             _drain_time, _qtime, _qdrained, _requests_outstanding,
             _packet_seq_no, _partial_packets, in_network, _cur_tid,
             _tlat_stats, _pair_tlat, _overall_min_tlat, _overall_avg_tlat,
             _overall_max_tlat, total_sims, tid_samples, issue_attempts,
             retired_recorded, step_pc, aborted >>
ctorVars == << ctor_pc, ctor_c >>
sizeVars == << _packet_size, _packet_size_rate, _packet_size_max_val, size_call >>
bufVars == << _vc, buf_call, buf_added, buf_removed, next_flit >>
poVars == << po_call >>
vars == << tmVars, ctorVars, sizeVars, bufVars, poVars >>

(* ------------------------------------------------------------------ *)
(* Constructor: the reply-class / request-class tables                 *)
(* ------------------------------------------------------------------ *)

\* every reply_class array the configuration can hand over (entries beyond
\* the class range would index _request_class out of bounds and are left out)
ReplyClassArrays == [Classes -> (-1) .. (_classes - 1)]

\* CtorIteration with the assertion left out: a later class overwrites the entry
CtorIterationNoAssert(rc, st) ==
  IF st.c >= _classes
  THEN [st EXCEPT !.pc = "done"]
  ELSE LET reply_class == rc[st.c] IN
       IF reply_class >= 0
       THEN [st EXCEPT !.req[reply_class] = st.c, !.c = st.c + 1]
       ELSE [st EXCEPT !.c = st.c + 1]

\* One iteration of the loop "for c: if reply_class >= 0 { assert; assign }".
\* st = [pc, c, req]; the assertion failing ends the program.
CtorIteration(rc, st) ==
  IF st.c >= _classes
  THEN [st EXCEPT !.pc = "done"]
  ELSE LET reply_class == rc[st.c] IN
       IF reply_class >= 0
       THEN IF st.req[reply_class] < 0
            THEN [st EXCEPT !.req[reply_class] = st.c, !.c = st.c + 1]
            ELSE [st EXCEPT !.pc = "abort"]
       ELSE [st EXCEPT !.c = st.c + 1]

RECURSIVE CtorRun(_, _)
CtorRun(rc, st) ==
  IF st.pc = "loop" THEN CtorRun(rc, CtorIteration(rc, st)) ELSE st

\* _request_class.resize(_classes, -1)
CtorStart == [pc |-> "loop", c |-> 0, req |-> [c \in Classes |-> -1]]

\* the outcome of constructing with reply_class array rc
Construct(rc) == CtorRun(rc, CtorStart)

\* the arrays the constructor accepts
AcceptedReplyClassArrays ==
  { rc \in ReplyClassArrays : Construct(rc).pc = "done" }

(* ------------------------------------------------------------------ *)
(* Packets                                                             *)
(* ------------------------------------------------------------------ *)

\* A packet, seen through its head and tail flit: class, source, destination,
\* transaction id, injection time of the transaction, creation time of the
\* packet, and the record flag of the tail.
Packet(cl, src, dest, tid, ttime, ctime, record) ==
  [cl |-> cl, src |-> src, dest |-> dest, tid |-> tid, ttime |-> ttime,
   ctime |-> ctime, record |-> record]

\* base: _GeneratePacket(source, dest, size, cl, time, tid, ttime) appends the
\* new packet's flits to _partial_packets[cl][source]. The record flag is set by
\* the base from state the design document does not fix: any value.
_GeneratePacket(pp, source, dest, cl, time, tid, ttime) ==
  { [pp EXCEPT ![cl][source] =
        Append(@, Packet(cl, source, dest, tid, ttime, time, record))]
    : record \in BOOLEAN }

(* ------------------------------------------------------------------ *)
(* _Inject                                                             *)
(* ------------------------------------------------------------------ *)

\* The part of the state _Inject works on, threaded through its loops; att
\* counts the calls of _IssuePacket per pair.
InjectState ==
  [qtime |-> _qtime, qdrained |-> _qdrained, ro |-> _requests_outstanding,
   seq |-> _packet_seq_no, pp |-> _partial_packets, tid |-> _cur_tid,
   att |-> [c \in Classes |-> [s \in Nodes |-> 0]]]

\* collaborator: _IssuePacket(source, c) of the concrete traffic manager. The
\* injection process may decline (FALSE) or a packet of a new transaction is
\* generated towards a destination the traffic pattern picks (TRUE).
_IssuePacket(Q, source, c) ==
  { [ok |-> FALSE, Q |-> Q] }
  \cup
  IF Q.tid < MaxTid
  THEN { [ok |-> TRUE, Q |-> [Q EXCEPT !.pp = pp2, !.tid = Q.tid + 1]]
         : pp2 \in UNION { _GeneratePacket(Q.pp, source, dest, c, _time, Q.tid, _time)
                           : dest \in Nodes } }
  ELSE {}

\* the per-pair call counts with one more call for (c, source)
CountCall(att, c, source) ==
  [c2 \in Classes |-> [s2 \in Nodes |->
     IF c2 = c /\ s2 = source THEN att[c2][s2] + 1 ELSE att[c2][s2]]]

\* while(_qtime[c][source] <= _time) { ++_qtime; if(_IssuePacket) { ++, ++, break } }
\* TimerLoop with the loop test _qtime < _time
RECURSIVE TimerLoopStrict(_, _, _)
TimerLoopStrict(Q, c, source) ==
  IF Q.qtime[c][source] < _time
  THEN LET Q0 == [Q EXCEPT !.qtime[c][source] = @ + 1]
           Q1 == [Q0 EXCEPT !.att = CountCall(Q0.att, c, source)]
       IN
       UNION { IF r.ok
               THEN { [r.Q EXCEPT !.ro[c][source] = @ + 1,
                                  !.seq[c][source] = @ + 1] }
               ELSE TimerLoopStrict(r.Q, c, source)
               : r \in _IssuePacket(Q1, source, c) }
  ELSE { Q }

RECURSIVE TimerLoop(_, _, _)
TimerLoop(Q, c, source) ==
  IF Q.qtime[c][source] <= _time
  THEN LET Q0 == [Q EXCEPT !.qtime[c][source] = @ + 1]
           Q1 == [Q0 EXCEPT !.att = CountCall(Q0.att, c, source)]
       IN
       UNION { IF r.ok
               THEN { [r.Q EXCEPT !.ro[c][source] = @ + 1,
                                  !.seq[c][source] = @ + 1] }
               ELSE TimerLoop(r.Q, c, source)
               : r \in _IssuePacket(Q1, source, c) }
  ELSE { Q }

\* DrainCheck with the flag assigned the condition instead of set when it holds
DrainCheckAssigns(Q, c, source) ==
  [Q EXCEPT !.qdrained[c][source] =
     (_sim_state = "draining" /\ Q.qtime[c][source] > _drain_time)]

\* if((_sim_state == draining) && (_qtime[c][source] > _drain_time)) _qdrained = true
DrainCheck(Q, c, source) ==
  IF _sim_state = "draining" /\ Q.qtime[c][source] > _drain_time
  THEN [Q EXCEPT !.qdrained[c][source] = TRUE]
  ELSE Q

\* InjectPair with the timer loop run for every class, replied-into or not
InjectPairTimerForAll(Q, c, source) ==
  IF Q.pp[c][source] = << >>
  THEN { DrainCheck(Q2, c, source) : Q2 \in TimerLoop(Q, c, source) }
  ELSE { Q }

\* InjectPair with the test made on _reply_class instead of _request_class
InjectPairTestsReplyClass(Q, c, source) ==
  IF Q.pp[c][source] = << >>
  THEN LET after == IF _reply_class[c] >= 0
                    THEN { [Q EXCEPT !.qtime[c][source] = _time] }
                    ELSE TimerLoop(Q, c, source)
       IN { DrainCheck(Q2, c, source) : Q2 \in after }
  ELSE { Q }

\* InjectPair without the test of the pending-packet slot
InjectPairIgnoresSlot(Q, c, source) ==
  LET after == IF _request_class[c] >= 0
               THEN { [Q EXCEPT !.qtime[c][source] = _time] }
               ELSE TimerLoop(Q, c, source)
  IN { DrainCheck(Q2, c, source) : Q2 \in after }

\* InjectPair with the drain test placed inside the timer branch
InjectPairDrainsTimerOnly(Q, c, source) ==
  IF Q.pp[c][source] = << >>
  THEN IF _request_class[c] >= 0
       THEN { [Q EXCEPT !.qtime[c][source] = _time] }
       ELSE { DrainCheck(Q2, c, source) : Q2 \in TimerLoop(Q, c, source) }
  ELSE { Q }

\* the body of the two for loops for one (c, source)
InjectPair(Q, c, source) ==
  IF Q.pp[c][source] = << >>
  THEN LET after == IF _request_class[c] >= 0
                    THEN { [Q EXCEPT !.qtime[c][source] = _time] }
                    ELSE TimerLoop(Q, c, source)
       IN { DrainCheck(Q2, c, source) : Q2 \in after }
  ELSE { Q }

\* for c, for source, in this order; k = c * _nodes + source
RECURSIVE InjectLoop(_, _)
InjectLoop(Q, k) ==
  IF k >= _classes * _nodes
  THEN { Q }
  ELSE UNION { InjectLoop(Q2, k + 1) : Q2 \in InjectPair(Q, k \div _nodes, k % _nodes) }

_Inject ==
  /\ ~aborted
  /\ step_pc = "inject"
  /\ \E Q \in InjectLoop(InjectState, 0) :
       /\ _qtime' = Q.qtime
       /\ _qdrained' = Q.qdrained
       /\ _requests_outstanding' = Q.ro
       /\ _packet_seq_no' = Q.seq
       /\ _partial_packets' = Q.pp
       /\ _cur_tid' = Q.tid
       /\ issue_attempts' = Q.att
  /\ step_pc' = "network"
  /\ UNCHANGED << _reply_class, _request_class, _measure_stats, _time,
                  _sim_state, _drain_time, in_network, _tlat_stats,
                  _pair_tlat, _overall_min_tlat, _overall_avg_tlat,
                  _overall_max_tlat, total_sims, tid_samples, aborted,
                  retired_recorded >>
  /\ UNCHANGED << ctorVars, sizeVars, bufVars, poVars >>

(* ------------------------------------------------------------------ *)
(* Stats collector (collaborator): the samples it holds                *)
(* ------------------------------------------------------------------ *)

AddSample(stats, value) == Append(stats, value)
NumSamples(stats) == Len(stats)

RECURSIVE SeqSum(_)
SeqSum(q) == IF q = << >> THEN 0 ELSE Head(q) + SeqSum(Tail(q))

StatsMin(stats) == CHOOSE v \in { stats[i] : i \in 1 .. Len(stats) } :
                     \A i \in 1 .. Len(stats) : v <= stats[i]
StatsMax(stats) == CHOOSE v \in { stats[i] : i \in 1 .. Len(stats) } :
                     \A i \in 1 .. Len(stats) : v >= stats[i]
\* the collector's average is a double; the model keeps its integer part
StatsAverage(stats) == SeqSum(stats) \div Len(stats)

(* ------------------------------------------------------------------ *)
(* _RetirePacket                                                       *)
(* ------------------------------------------------------------------ *)

\* _RetirePacket(head, tail, dest) for packet p, whose tail arrived at cycle
\* atime at node dest.
\* R = [ro, seq, pp, tlat, pair, samples]; the result is the set of outcomes
\* (the generated reply's record flag is the base's choice).
RetireState ==
  [ro |-> _requests_outstanding, seq |-> _packet_seq_no, pp |-> _partial_packets,
   tlat |-> _tlat_stats, pair |-> _pair_tlat, samples |-> tid_samples]

\* RetireEffect with the sample recorded whatever the phase and the record flag
RetireEffectAlwaysSamples(R, p, atime, dest) ==
  LET reply_class == _reply_class[p.cl] IN
  IF reply_class < 0
  THEN LET request_class == _request_class[p.cl]
           R1 == IF request_class < 0
                 THEN [R EXCEPT !.ro[p.cl][p.src] = @ - 1]
                 ELSE [R EXCEPT !.ro[request_class][dest] = @ - 1]
           cl == IF request_class < 0 THEN p.cl ELSE request_class
       IN { [R1 EXCEPT
               !.tlat[cl] = AddSample(@, atime - p.ttime),
               !.pair[cl][dest * _nodes + p.src] = AddSample(@, atime - p.ttime),
               !.samples[p.tid] = @ + 1] }
  ELSE { [R EXCEPT !.seq[p.cl][dest] = @ + 1, !.pp = pp2]
         : pp2 \in _GeneratePacket(R.pp, p.dest, p.src, reply_class,
                                   atime + 1, p.tid, p.ttime) }

\* RetireEffect with the counter of a self-contained class decremented at the
\* destination instead of the source
RetireEffectDecrementsAtDest(R, p, atime, dest) ==
  LET reply_class == _reply_class[p.cl] IN
  IF reply_class < 0
  THEN LET request_class == _request_class[p.cl]
           R1 == IF request_class < 0
                 THEN [R EXCEPT !.ro[p.cl][dest] = @ - 1]
                 ELSE [R EXCEPT !.ro[request_class][dest] = @ - 1]
       IN IF _sim_state = "warming_up" \/ p.record
          THEN LET cl == IF request_class < 0 THEN p.cl ELSE request_class IN
               { [R1 EXCEPT
                    !.tlat[cl] = AddSample(@, atime - p.ttime),
                    !.pair[cl][dest * _nodes + p.src] = AddSample(@, atime - p.ttime),
                    !.samples[p.tid] = @ + 1] }
          ELSE { R1 }
  ELSE { [R EXCEPT !.seq[p.cl][dest] = @ + 1, !.pp = pp2]
         : pp2 \in _GeneratePacket(R.pp, p.dest, p.src, reply_class,
                                   atime + 1, p.tid, p.ttime) }

\* RetireEffect with the decrement moved inside the test that guards the sample
RetireEffectCountsWhenRecorded(R, p, atime, dest) ==
  LET reply_class == _reply_class[p.cl] IN
  IF reply_class < 0
  THEN LET request_class == _request_class[p.cl]
           R1 == IF request_class < 0
                 THEN [R EXCEPT !.ro[p.cl][p.src] = @ - 1]
                 ELSE [R EXCEPT !.ro[request_class][dest] = @ - 1]
       IN IF _sim_state = "warming_up" \/ p.record
          THEN LET cl == IF request_class < 0 THEN p.cl ELSE request_class IN
               { [R1 EXCEPT
                    !.tlat[cl] = AddSample(@, atime - p.ttime),
                    !.pair[cl][dest * _nodes + p.src] = AddSample(@, atime - p.ttime),
                    !.samples[p.tid] = @ + 1] }
          ELSE { R }
  ELSE { [R EXCEPT !.seq[p.cl][dest] = @ + 1, !.pp = pp2]
         : pp2 \in _GeneratePacket(R.pp, p.dest, p.src, reply_class,
                                   atime + 1, p.tid, p.ttime) }

RetireEffect(R, p, atime, dest) ==
  LET reply_class == _reply_class[p.cl] IN
  IF reply_class < 0
  THEN LET request_class == _request_class[p.cl]
           R1 == IF request_class < 0
                 THEN [R EXCEPT !.ro[p.cl][p.src] = @ - 1]
                 ELSE [R EXCEPT !.ro[request_class][dest] = @ - 1]
       IN IF _sim_state = "warming_up" \/ p.record
          THEN LET cl == IF request_class < 0 THEN p.cl ELSE request_class IN
               { [R1 EXCEPT
                    !.tlat[cl] = AddSample(@, atime - p.ttime),
                    !.pair[cl][dest * _nodes + p.src] = AddSample(@, atime - p.ttime),
                    !.samples[p.tid] = @ + 1] }
          ELSE { R1 }
  ELSE { [R EXCEPT !.seq[p.cl][dest] = @ + 1, !.pp = pp2]
         : pp2 \in _GeneratePacket(R.pp, p.dest, p.src, reply_class,
                                   atime + 1, p.tid, p.ttime) }

\* The tail of packet p leaves the network at its destination in the current
\* cycle (base: atime = _time) and the packet is retired.
_RetirePacket(p) ==
  /\ ~aborted
  /\ step_pc = "network"
  /\ p \in in_network
  /\ in_network' = in_network \ { p }
  /\ \E R \in RetireEffect(RetireState, p, _time, p.dest) :
       /\ _requests_outstanding' = R.ro
       /\ _packet_seq_no' = R.seq
       /\ _partial_packets' = R.pp
       /\ _tlat_stats' = R.tlat
       /\ _pair_tlat' = R.pair
       /\ tid_samples' = R.samples
  /\ retired_recorded' = IF p.record THEN retired_recorded \cup { p.cl }
                          ELSE retired_recorded
  /\ UNCHANGED << _reply_class, _request_class, _measure_stats, _time,
                  _sim_state, _drain_time, _qtime, _qdrained, _cur_tid,
                  _overall_min_tlat, _overall_avg_tlat, _overall_max_tlat,
                  total_sims, step_pc, aborted,
                  issue_attempts >>
  /\ UNCHANGED << ctorVars, sizeVars, bufVars, poVars >>

(* ------------------------------------------------------------------ *)
(* Base engine steps around the two hooks                              *)
(* ------------------------------------------------------------------ *)

\* base: the packet at the front of _partial_packets[c][source] has been sent
\* into the network completely
NetworkAccept(c, source) ==
  /\ ~aborted
  /\ step_pc = "network"
  /\ _partial_packets[c][source] # << >>
  /\ in_network' = in_network \cup { Head(_partial_packets[c][source]) }
  /\ _partial_packets' = [_partial_packets EXCEPT ![c][source] = Tail(@)]
  /\ UNCHANGED << _reply_class, _request_class, _measure_stats, _time,
                  _sim_state, _drain_time, _qtime, _qdrained,
                  _requests_outstanding, _packet_seq_no, _cur_tid,
                  _tlat_stats, _pair_tlat, _overall_min_tlat,
                  _overall_avg_tlat, _overall_max_tlat, total_sims,
                  tid_samples, step_pc, aborted,
                  issue_attempts,
                  retired_recorded >>
  /\ UNCHANGED << ctorVars, sizeVars, bufVars, poVars >>

\* base: ++_time at the end of a cycle
Tick ==
  /\ ~aborted
  /\ step_pc = "network"
  /\ _time < MaxTime
  /\ _time' = _time + 1
  /\ step_pc' = "inject"
  /\ UNCHANGED << _reply_class, _request_class, _measure_stats, _sim_state,
                  _drain_time, _qtime, _qdrained, _requests_outstanding,
                  _packet_seq_no, _partial_packets, in_network, _cur_tid,
                  _tlat_stats, _pair_tlat, _overall_min_tlat,
                  _overall_avg_tlat, _overall_max_tlat, total_sims,
                  tid_samples, aborted,
                  issue_attempts,
                  retired_recorded >>
  /\ UNCHANGED << ctorVars, sizeVars, bufVars, poVars >>

\* base: the phases of a trial; draining begins at the current cycle
NextPhase ==
  /\ ~aborted
  /\ step_pc = "inject"
  /\ \/ /\ _sim_state = "warming_up"
        /\ _sim_state' = "running"
        /\ UNCHANGED _drain_time
     \/ /\ _sim_state = "running"
        /\ _sim_state' = "draining"
        /\ _drain_time' = _time
     \/ /\ _sim_state = "draining"
        /\ _sim_state' = "warming_up"
        /\ UNCHANGED _drain_time
  /\ UNCHANGED << _reply_class, _request_class, _measure_stats, _time,
                  _qtime, _qdrained, _requests_outstanding, _packet_seq_no,
                  _partial_packets, in_network, _cur_tid, _tlat_stats,
                  _pair_tlat, _overall_min_tlat, _overall_avg_tlat,
                  _overall_max_tlat, total_sims, tid_samples, step_pc,
                  aborted,
                  issue_attempts,
                  retired_recorded >>
  /\ UNCHANGED << ctorVars, sizeVars, bufVars, poVars >>

(* ------------------------------------------------------------------ *)
(* _ResetSim, _ClearStats, _UpdateOverallStats                         *)
(* ------------------------------------------------------------------ *)

\* _qtime[c].assign(_nodes, 0)
ResetQtime == [c \in Classes |-> [s \in Nodes |-> 0]]
\* ResetQdrained with only the first source's flag cleared
ResetQdrainedFirstSourceOnly ==
  [c \in Classes |-> [s \in Nodes |-> IF s = 0 THEN FALSE ELSE _qdrained[c][s]]]

\* _qdrained[c].assign(_nodes, false)
ResetQdrained == [c \in Classes |-> [s \in Nodes |-> FALSE]]

_ResetSim ==
  /\ ~aborted
  /\ step_pc = "inject"
  /\ _qtime' = ResetQtime
  /\ _qdrained' = ResetQdrained
  /\ UNCHANGED << _reply_class, _request_class, _measure_stats, _time,
                  _sim_state, _drain_time, _requests_outstanding,
                  _packet_seq_no, _partial_packets, in_network, _cur_tid,
                  _tlat_stats, _pair_tlat, _overall_min_tlat,
                  _overall_avg_tlat, _overall_max_tlat, total_sims,
                  tid_samples, step_pc, aborted,
                  issue_attempts,
                  retired_recorded >>
  /\ UNCHANGED << ctorVars, sizeVars, bufVars, poVars >>

\* _tlat_stats[c]->Clear() and _pair_tlat[c][i*_nodes+j]->Clear() for all c, i, j
ClearedTlat == [c \in Classes |-> << >>]
ClearedPairTlat == [c \in Classes |-> [k \in Pairs |-> << >>]]

_ClearStats ==
  /\ ~aborted
  /\ step_pc = "inject"
  /\ _tlat_stats' = ClearedTlat
  /\ _pair_tlat' = ClearedPairTlat
  /\ retired_recorded' = {}
  /\ UNCHANGED << _reply_class, _request_class, _measure_stats, _time,
                  _sim_state, _drain_time, _qtime, _qdrained,
                  _requests_outstanding, _packet_seq_no, _partial_packets,
                  in_network, _cur_tid, _overall_min_tlat, _overall_avg_tlat,
                  _overall_max_tlat, total_sims, tid_samples, step_pc,
                  aborted,
                  issue_attempts >>
  /\ UNCHANGED << ctorVars, sizeVars, bufVars, poVars >>

\* The loop of _UpdateOverallStats from class c on.
\* U = [min, avg, max, failed]; failed: the assertion on NumSamples() did not hold.
RECURSIVE UpdateOverallLoop(_, _)
UpdateOverallLoop(U, c) ==
  IF c >= _classes \/ U.failed
  THEN U
  ELSE IF _measure_stats[c] = 0
       THEN UpdateOverallLoop(U, c + 1)
       ELSE IF ~(NumSamples(_tlat_stats[c]) > 0)
            THEN [U EXCEPT !.failed = TRUE]
            ELSE UpdateOverallLoop(
                   [U EXCEPT !.min[c] = @ + StatsMin(_tlat_stats[c]),
                             !.avg[c] = @ + StatsAverage(_tlat_stats[c]),
                             !.max[c] = @ + StatsMax(_tlat_stats[c])],
                   c + 1)

_UpdateOverallStats ==
  /\ ~aborted
  /\ step_pc = "inject"
  /\ total_sims < MaxSims
  /\ LET U == UpdateOverallLoop([min |-> _overall_min_tlat, avg |-> _overall_avg_tlat,
                                 max |-> _overall_max_tlat, failed |-> FALSE], 0)
     IN /\ _overall_min_tlat' = U.min
        /\ _overall_avg_tlat' = U.avg
        /\ _overall_max_tlat' = U.max
        /\ aborted' = U.failed
  /\ total_sims' = total_sims + 1
  /\ UNCHANGED << _reply_class, _request_class, _measure_stats, _time,
                  _sim_state, _drain_time, _qtime, _qdrained,
                  _requests_outstanding, _packet_seq_no, _partial_packets,
                  in_network, _cur_tid, _tlat_stats, _pair_tlat, tid_samples,
                  step_pc,
                  issue_attempts,
                  retired_recorded >>
  /\ UNCHANGED << ctorVars, sizeVars, bufVars, poVars >>

(* ------------------------------------------------------------------ *)
(* The traffic manager as a state machine                              *)
(* ------------------------------------------------------------------ *)

\* the fields of the other components while the traffic manager runs
CtorIdle == ctor_pc = "done" /\ ctor_c = _classes
SizeIdle == /\ _packet_size = << 1 >>
            /\ _packet_size_rate = << 1 >>
            /\ _packet_size_max_val = 0
            /\ size_call = [called |-> FALSE]
BufIdle == /\ _vc = << >>
           /\ buf_call = [fn |-> "none"]
           /\ buf_added = << >>
           /\ buf_removed = << >>
           /\ next_flit = 0
PoIdle == po_call = [called |-> FALSE]

\* the tables the constructor fills in
ConfigIs(rc, req, ms) ==
  /\ _reply_class = rc
  /\ _request_class = req
  /\ _measure_stats = ms

\* base: the clock and the phase at the start of the first trial
ClockFresh ==
  /\ _time = 0
  /\ _sim_state = "warming_up"
  /\ _drain_time = 0
  /\ step_pc = "inject"
  /\ aborted = FALSE

\* _qtime[c].resize(_nodes), _qdrained[c].resize(_nodes): zero / false
QueuesFresh ==
  /\ _qtime = [c \in Classes |-> [s \in Nodes |-> 0]]
  /\ _qdrained = [c \in Classes |-> [s \in Nodes |-> FALSE]]

\* base: no packet exists yet
PacketsFresh ==
  /\ _requests_outstanding = [c \in Classes |-> [s \in Nodes |-> 0]]
  /\ _packet_seq_no = [c \in Classes |-> [s \in Nodes |-> 0]]
  /\ _partial_packets = [c \in Classes |-> [s \in Nodes |-> << >>]]
  /\ in_network = {}
  /\ _cur_tid = 0

\* new Stats(...) for every class and pair; _overall_*.resize(_classes, 0.0)
StatsFresh ==
  /\ _tlat_stats = ClearedTlat
  /\ _pair_tlat = ClearedPairTlat
  /\ _overall_min_tlat = [c \in Classes |-> 0]
  /\ _overall_avg_tlat = [c \in Classes |-> 0]
  /\ _overall_max_tlat = [c \in Classes |-> 0]
  /\ total_sims = 0
  /\ tid_samples = [t \in Tids |-> 0]
  /\ retired_recorded = {}
  /\ issue_attempts = [c \in Classes |-> [s \in Nodes |-> 0]]

\* the traffic manager's fields while another component is looked at
TMIdle ==
  /\ ConfigIs([c \in Classes |-> -1], [c \in Classes |-> -1], [c \in Classes |-> 0])
  /\ ClockFresh
  /\ QueuesFresh
  /\ PacketsFresh
  /\ StatsFresh

\* The state the constructor leaves for an accepted reply_class array.
Init ==
  /\ \E rc \in AcceptedReplyClassArrays, ms \in [Classes -> {0, 1}] :
       ConfigIs(rc, Construct(rc).req, ms)
  /\ ClockFresh
  /\ QueuesFresh
  /\ PacketsFresh
  /\ StatsFresh
  /\ CtorIdle
  /\ SizeIdle
  /\ BufIdle
  /\ PoIdle

Next ==
  \/ _Inject
  \/ \E p \in in_network : _RetirePacket(p)
  \/ \E c \in Classes, source \in Nodes : NetworkAccept(c, source)
  \/ Tick
  \/ NextPhase
  \/ _ResetSim
  \/ _ClearStats
  \/ _UpdateOverallStats

Spec == Init /\ [][Next]_vars

(* ------------------------------------------------------------------ *)
(* The constructor's reply-class loop, step by step                    *)
(* ------------------------------------------------------------------ *)

CtorStep ==
  /\ ctor_pc = "loop"
  /\ LET st == CtorIteration(_reply_class,
                            [pc |-> ctor_pc, c |-> ctor_c, req |-> _request_class])
     IN /\ ctor_pc' = st.pc
        /\ ctor_c' = st.c
        /\ _request_class' = st.req
  /\ UNCHANGED << _reply_class, _measure_stats, _time, _sim_state, _drain_time,
                  _qtime, _qdrained, _requests_outstanding, _packet_seq_no,
                  _partial_packets, in_network, _cur_tid, _tlat_stats,
                  _pair_tlat, _overall_min_tlat, _overall_avg_tlat,
                  _overall_max_tlat, total_sims, tid_samples, step_pc, aborted,
                  issue_attempts,
                  retired_recorded >>
  /\ UNCHANGED << sizeVars, bufVars, poVars >>

\* _reply_class as read from the configuration, _request_class.resize(_classes, -1)
CtorInit ==
  /\ \E rc \in ReplyClassArrays :
       ConfigIs(rc, CtorStart.req, [c \in Classes |-> 0])
  /\ ctor_pc = "loop"
  /\ ctor_c = 0
  /\ ClockFresh
  /\ QueuesFresh
  /\ PacketsFresh
  /\ StatsFresh
  /\ SizeIdle
  /\ BufIdle
  /\ PoIdle

CtorNext == CtorStep

SpecCtor == CtorInit /\ [][CtorNext]_vars

\* two distinct classes name the same reply class
HasDuplicateTarget(rc) ==
  \E c1 \in Classes, c2 \in Classes : c1 # c2 /\ rc[c1] >= 0 /\ rc[c1] = rc[c2]

\* C10: a reply_class array in which two classes name the same reply class is
\* never accepted (the loop ends in the assertion failure); and for an accepted
\* array _request_class[r] = c exactly when _reply_class[c] = r, and
\* _request_class[r] = -1 when no class names r.
C10_ReplyClassInjective ==
  /\ (HasDuplicateTarget(_reply_class) /\ ctor_pc # "loop") => ctor_pc = "abort"
  /\ ctor_pc = "done" =>
       /\ \A r \in Classes, c \in Classes :
            (_request_class[r] = c) <=> (_reply_class[c] = r)
       /\ \A r \in Classes :
            (\A c \in Classes : _reply_class[c] # r) => _request_class[r] = -1

\* the loop has stopped at the second class that names an already claimed reply class
C10_Witness ==
  /\ ctor_pc = "abort"
  /\ HasDuplicateTarget(_reply_class)
  /\ ctor_c > 0
  /\ _request_class[_reply_class[ctor_c]] >= 0
  /\ _request_class[_reply_class[ctor_c]] < ctor_c

(* ------------------------------------------------------------------ *)
(* Packet-size tables and _GetNextPacketSize                           *)
(* ------------------------------------------------------------------ *)

\* the longest list of sizes of a class
MaxSizes == 3
\* the largest rate of a size
MaxRate == 2
\* sizes are drawn from 1 .. MaxSizeValue
MaxSizeValue == 2

\* vectors are functions on 0 .. n-1
VecLen(v) == Cardinality(DOMAIN v)
Vectors(n, S) == [0 .. (n - 1) -> S]

\* rates.resize(n, rates.back())
ResizeWithBack(v, n) ==
  [i \in 0 .. (n - 1) |-> IF i < VecLen(v) THEN v[i] ELSE v[VecLen(v) - 1]]

\* int max_val = -1; for(i < size) max_val += rates[i];
RECURSIVE MaxValLoop(_, _, _)
MaxValLoop(rates, i, max_val) ==
  IF i >= VecLen(rates) THEN max_val
  ELSE MaxValLoop(rates, i + 1, max_val + rates[i])

MaxValOf(rates) == MaxValLoop(rates, 0, -1)

\* _GetNextPacketSize's scan with the comparison limit >= pct
RECURSIVE ScanLoopOffByOne(_, _, _, _)
ScanLoopOffByOne(psize, prate, pct, i) ==
  IF i < VecLen(psize) - 1
  THEN IF prate[i] >= pct
       THEN [size |-> psize[i], index |-> i, assert_ok |-> TRUE]
       ELSE ScanLoopOffByOne(psize, prate, pct - prate[i], i + 1)
  ELSE [size |-> psize[VecLen(psize) - 1], index |-> VecLen(psize) - 1,
        assert_ok |-> prate[VecLen(prate) - 1] > pct]

\* for(i < sizes - 1) { if(prate[i] > pct) return psize[i]; else pct -= prate[i]; }
\* assert(prate.back() > pct); return psize.back();
\* index: the position the returned size was read from
RECURSIVE ScanLoop(_, _, _, _)
ScanLoop(psize, prate, pct, i) ==
  IF i < VecLen(psize) - 1
  THEN IF prate[i] > pct
       THEN [size |-> psize[i], index |-> i, assert_ok |-> TRUE]
       ELSE ScanLoop(psize, prate, pct - prate[i], i + 1)
  ELSE [size |-> psize[VecLen(psize) - 1], index |-> VecLen(psize) - 1,
        assert_ok |-> prate[VecLen(prate) - 1] > pct]

\* _GetNextPacketSize when RandomInt(max_val) returned pct
SizeForDraw(pct) == ScanLoop(_packet_size, _packet_size_rate, pct, 0)

\* collaborator: RandomInt(max) is an integer in [0, max]
RandomInt(max) == 0 .. max

\* One call of _GetNextPacketSize for the class whose tables are held.
\* (With several sizes and all rates 0, max_val is -1 and the draw itself is
\* undefined; such a call is not followed.)
_GetNextPacketSize ==
  /\ ~size_call.called
  /\ IF VecLen(_packet_size) = 1
     THEN size_call' = [called |-> TRUE, drew |-> FALSE, pct |-> 0,
                        size |-> _packet_size[0], index |-> 0, assert_ok |-> TRUE]
     ELSE /\ _packet_size_max_val >= 0
          /\ \E pct \in RandomInt(_packet_size_max_val) :
               LET r == SizeForDraw(pct) IN
               size_call' = [called |-> TRUE, drew |-> TRUE, pct |-> pct,
                             size |-> r.size, index |-> r.index,
                             assert_ok |-> r.assert_ok]
  /\ UNCHANGED << _packet_size, _packet_size_rate, _packet_size_max_val >>
  /\ UNCHANGED << tmVars, ctorVars, bufVars, poVars >>

\* The tables the constructor builds for one class from a list of sizes and the
\* configured list of rates (lines 67-82; the scalar case of lines 59-66 is the
\* list of one rate).
SizeInit ==
  /\ \E n \in 1 .. MaxSizes :
       \E psize \in Vectors(n, 1 .. MaxSizeValue) :
         \E k \in 1 .. MaxSizes :
           \E rates \in Vectors(k, 0 .. MaxRate) :
             /\ _packet_size = psize
             /\ _packet_size_rate = ResizeWithBack(rates, n)
             /\ _packet_size_max_val = MaxValOf(ResizeWithBack(rates, n))
  /\ size_call = [called |-> FALSE]
  /\ TMIdle
  /\ CtorIdle
  /\ BufIdle
  /\ PoIdle

SizeNext == _GetNextPacketSize

SpecSize == SizeInit /\ [][SizeNext]_vars

\* rate[0] + ... + rate[i-1]
RECURSIVE RateSum(_, _)
RateSum(prate, i) == IF i <= 0 THEN 0 ELSE prate[i - 1] + RateSum(prate, i - 1)

\* C9: with one size the size is returned without a draw; otherwise a draw p
\* returns psize[i] for the i with sum(rate[0..i-1]) <= p < sum(rate[0..i]), the
\* assertion prate.back() > pct holds, and exactly rate[i] of the max_val + 1
\* draws select position i.
C9_WeightedSize ==
  /\ size_call.called =>
       IF VecLen(_packet_size) = 1
       THEN ~size_call.drew /\ size_call.size = _packet_size[0]
       ELSE /\ size_call.drew
            /\ size_call.assert_ok
            /\ \E i \in DOMAIN _packet_size :
                 /\ RateSum(_packet_size_rate, i) <= size_call.pct
                 /\ size_call.pct < RateSum(_packet_size_rate, i + 1)
                 /\ size_call.index = i
                 /\ size_call.size = _packet_size[i]
  /\ (VecLen(_packet_size) > 1 /\ _packet_size_max_val >= 0) =>
       /\ _packet_size_max_val = RateSum(_packet_size_rate, VecLen(_packet_size)) - 1
       /\ \A i \in DOMAIN _packet_size :
            Cardinality({ pct \in RandomInt(_packet_size_max_val) :
                            SizeForDraw(pct).index = i }) = _packet_size_rate[i]

\* three sizes with rates 1, 0, 2: the draw 1 skipped the entry of rate 0 and
\* selected the last size
C9_Witness ==
  /\ size_call.called
  /\ VecLen(_packet_size) = 3
  /\ _packet_size_rate = (0 :> 1 @@ 1 :> 0 @@ 2 :> 2)
  /\ size_call.pct = 1
  /\ size_call.index = 2

(* ------------------------------------------------------------------ *)
(* Buffer                                                              *)
(* ------------------------------------------------------------------ *)

\* config num_vcs: the number of lanes of the buffer
num_vcs == 2
\* the depth of a lane
VcBufSize == 2
\* flits offered to the buffer
MaxFlits == 4

Lanes == 0 .. (num_vcs - 1)

\* collaborator: VC::AddFlit refuses at capacity, else enqueues
VCAddFlit(lane, f) ==
  IF Len(lane) >= VcBufSize
  THEN [ret |-> FALSE, lane |-> lane]
  ELSE [ret |-> TRUE, lane |-> Append(lane, f)]

\* collaborator: VC::RemoveFlit dequeues the oldest flit
VCRemoveFlit(lane) == [ret |-> Head(lane), lane |-> Tail(lane)]

\* collaborator: VC::Empty, VC::Full
VCEmpty(lane) == Len(lane) = 0
VCFull(lane) == Len(lane) >= VcBufSize

\* Buffer::AddFlit dispatching to lane 0 whatever the index
BufferAddFlitLaneZero(V, vc, f) ==
  LET r == VCAddFlit(V[0], f) IN [ret |-> r.ret, vcs |-> [V EXCEPT ![0] = r.lane]]

\* return _vc[vc]->AddFlit(f);
BufferAddFlit(V, vc, f) ==
  LET r == VCAddFlit(V[vc], f) IN [ret |-> r.ret, vcs |-> [V EXCEPT ![vc] = r.lane]]

\* return _vc[vc]->RemoveFlit();
BufferRemoveFlit(V, vc) ==
  LET r == VCRemoveFlit(V[vc]) IN [ret |-> r.ret, vcs |-> [V EXCEPT ![vc] = r.lane]]

\* return _vc[vc]->Empty();
BufferEmpty(V, vc) == VCEmpty(V[vc])

\* return _vc[vc]->Full();
BufferFull(V, vc) == VCFull(V[vc])

AddFlit(vc) ==
  /\ next_flit < MaxFlits
  /\ LET r == BufferAddFlit(_vc, vc, next_flit) IN
       /\ _vc' = r.vcs
       /\ buf_call' = [fn |-> "AddFlit", vc |-> vc, ret |-> r.ret]
       /\ buf_added' = IF r.ret THEN [buf_added EXCEPT ![vc] = Append(@, next_flit)]
                       ELSE buf_added
  /\ next_flit' = next_flit + 1
  /\ UNCHANGED buf_removed
  /\ UNCHANGED << tmVars, ctorVars, sizeVars, poVars >>

\* callers check Empty first: removing from an empty lane is not followed
RemoveFlit(vc) ==
  /\ ~BufferEmpty(_vc, vc)
  /\ LET r == BufferRemoveFlit(_vc, vc) IN
       /\ _vc' = r.vcs
       /\ buf_call' = [fn |-> "RemoveFlit", vc |-> vc, ret |-> r.ret]
       /\ buf_removed' = [buf_removed EXCEPT ![vc] = Append(@, r.ret)]
  /\ UNCHANGED << buf_added, next_flit >>
  /\ UNCHANGED << tmVars, ctorVars, sizeVars, poVars >>

Empty(vc) ==
  /\ buf_call' = [fn |-> "Empty", vc |-> vc, ret |-> BufferEmpty(_vc, vc)]
  /\ UNCHANGED << _vc, buf_added, buf_removed, next_flit >>
  /\ UNCHANGED << tmVars, ctorVars, sizeVars, poVars >>

Full(vc) ==
  /\ buf_call' = [fn |-> "Full", vc |-> vc, ret |-> BufferFull(_vc, vc)]
  /\ UNCHANGED << _vc, buf_added, buf_removed, next_flit >>
  /\ UNCHANGED << tmVars, ctorVars, sizeVars, poVars >>

\* _vc.resize(num_vcs), one empty lane per index
BufInit ==
  /\ _vc = [i \in Lanes |-> << >>]
  /\ buf_call = [fn |-> "none"]
  /\ buf_added = [i \in Lanes |-> << >>]
  /\ buf_removed = [i \in Lanes |-> << >>]
  /\ next_flit = 0
  /\ TMIdle
  /\ CtorIdle
  /\ SizeIdle
  /\ PoIdle

BufNext ==
  \E vc \in Lanes : AddFlit(vc) \/ RemoveFlit(vc) \/ Empty(vc) \/ Full(vc)

SpecBuf == BufInit /\ [][BufNext]_vars

\* C7: a lane never holds more than its depth; AddFlit on index vc returns
\* false and changes nothing exactly when lane vc holds VcBufSize flits, else
\* returns true and appends the flit to lane vc; the flits RemoveFlit(vc) has
\* returned followed by the flits lane vc holds are the flits AddFlit(vc)
\* accepted, in that order; and a call on index vc leaves every other lane as
\* it was.
C7_BufferFlowControl ==
  /\ [](\A vc \in Lanes :
          /\ Len(_vc[vc]) <= VcBufSize
          /\ buf_added[vc] = buf_removed[vc] \o _vc[vc])
  /\ [][\A vc \in Lanes :
          /\ AddFlit(vc) =>
               IF Len(_vc[vc]) = VcBufSize
               THEN buf_call'.ret = FALSE /\ _vc' = _vc
               ELSE buf_call'.ret = TRUE
                    /\ _vc' = [_vc EXCEPT ![vc] = Append(@, next_flit)]
          /\ RemoveFlit(vc) =>
               /\ buf_call'.ret = Head(_vc[vc])
               /\ _vc' = [_vc EXCEPT ![vc] = Tail(@)]
          /\ (Empty(vc) \/ Full(vc)) => _vc' = _vc
    ]_vars

\* lane 1 was filled, refused one more flit, and has since handed out its
\* first flit, while lane 0 holds a flit of its own
C7_Witness ==
  /\ Len(buf_added[1]) = VcBufSize
  /\ next_flit > VcBufSize + 1
  /\ Len(buf_removed[1]) = 1
  /\ buf_removed[1][1] = buf_added[1][1]
  /\ Len(_vc[0]) = 1

(* ------------------------------------------------------------------ *)
(* _PacketsOutstanding                                                 *)
(* ------------------------------------------------------------------ *)

\* base: _measured_in_flight_flits[c], the flits of class c under way that are
\* flagged for recording
MeasuredInFlight(c) ==
  { p \in in_network : p.cl = c /\ p.record }

\* base: TrafficManager::_PacketsOutstanding, measured traffic is in flight
BasePacketsOutstanding ==
  \E c \in Classes : _measure_stats[c] # 0 /\ MeasuredInFlight(c) # {}

\* for(s < _nodes) if(!_qdrained[c][s]) return true;
RECURSIVE SourceLoop(_, _)
SourceLoop(c, s) ==
  IF s >= _nodes THEN FALSE
  ELSE IF ~_qdrained[c][s] THEN TRUE ELSE SourceLoop(c, s + 1)

\* ClassLoop without the test of _measure_stats[c]
RECURSIVE ClassLoopAllClasses(_)
ClassLoopAllClasses(c) ==
  IF c >= _classes THEN [ret |-> FALSE, assert_ok |-> TRUE]
  ELSE IF MeasuredInFlight(c) # {}
       THEN [ret |-> TRUE, assert_ok |-> FALSE]
       ELSE IF SourceLoop(c, 0)
            THEN [ret |-> TRUE, assert_ok |-> TRUE]
            ELSE ClassLoopAllClasses(c + 1)

\* for(c < _classes) if(_measure_stats[c]) { assert(...empty()); for(s) ... }
\* return false;
RECURSIVE ClassLoop(_)
ClassLoop(c) ==
  IF c >= _classes THEN [ret |-> FALSE, assert_ok |-> TRUE]
  ELSE IF _measure_stats[c] # 0
       THEN IF MeasuredInFlight(c) # {}
            THEN [ret |-> TRUE, assert_ok |-> FALSE]
            ELSE IF SourceLoop(c, 0)
                 THEN [ret |-> TRUE, assert_ok |-> TRUE]
                 ELSE ClassLoop(c + 1)
       ELSE ClassLoop(c + 1)

\* the value _PacketsOutstanding() returns in the current state
PacketsOutstandingResult ==
  IF BasePacketsOutstanding
  THEN [ret |-> TRUE, assert_ok |-> TRUE]
  ELSE ClassLoop(0)

_PacketsOutstanding ==
  /\ ~po_call.called
  /\ po_call' = [called |-> TRUE, ret |-> PacketsOutstandingResult.ret,
                 assert_ok |-> PacketsOutstandingResult.assert_ok]
  /\ UNCHANGED << tmVars, ctorVars, sizeVars, bufVars >>

\* the packets that may be in flight when the call is made
PoPackets ==
  { Packet(c, 0, _nodes - 1, 0, 0, 0, record) : c \in Classes, record \in BOOLEAN }

\* any measured classes, any drained flags, at most one packet in flight
PoInit ==
  /\ \E ms \in [Classes -> {0, 1}] :
       ConfigIs([c \in Classes |-> -1], [c \in Classes |-> -1], ms)
  /\ ClockFresh
  /\ _qtime = [c \in Classes |-> [s \in Nodes |-> 0]]
  /\ _qdrained \in [Classes -> [Nodes -> BOOLEAN]]
  /\ _requests_outstanding = [c \in Classes |-> [s \in Nodes |-> 0]]
  /\ _packet_seq_no = [c \in Classes |-> [s \in Nodes |-> 0]]
  /\ _partial_packets = [c \in Classes |-> [s \in Nodes |-> << >>]]
  /\ in_network \in { {} } \cup { { p } : p \in PoPackets }
  /\ _cur_tid = 0
  /\ StatsFresh
  /\ po_call = [called |-> FALSE]
  /\ CtorIdle
  /\ SizeIdle
  /\ BufIdle

PoNext == _PacketsOutstanding

SpecPO == PoInit /\ [][PoNext]_vars

\* C6: _PacketsOutstanding returns false exactly when the base reports nothing
\* outstanding and every source of every measured class is marked drained; its
\* assertion holds; and the call changes nothing.
C6_PacketsOutstanding ==
  /\ [](po_call.called =>
          /\ po_call.assert_ok
          /\ (po_call.ret = FALSE) <=>
               /\ ~BasePacketsOutstanding
               /\ \A c \in Classes :
                    _measure_stats[c] # 0 => \A s \in Nodes : _qdrained[c][s])
  /\ [][_PacketsOutstanding => UNCHANGED << tmVars, ctorVars, sizeVars, bufVars >>]_vars

\* the call returned false although a source of an unmeasured class is not
\* drained and an unrecorded packet is in flight
C6_Witness ==
  /\ po_call.called
  /\ po_call.ret = FALSE
  /\ \E c \in Classes : _measure_stats[c] # 0
  /\ \E c \in Classes, s \in Nodes : _measure_stats[c] = 0 /\ ~_qdrained[c][s]
  /\ in_network # {}

(* ------------------------------------------------------------------ *)
(* Properties of the traffic manager                                   *)
(* ------------------------------------------------------------------ *)

RECURSIVE SeqToSet(_)
SeqToSet(q) == IF q = << >> THEN {} ELSE { Head(q) } \cup SeqToSet(Tail(q))

\* every packet that exists: queued at its source or in the network
LivePackets ==
  in_network \cup UNION { SeqToSet(_partial_packets[c][s]) : c \in Classes, s \in Nodes }

\* transaction t was started and none of its packets is left
Completed(t) == t < _cur_tid /\ \A p \in LivePackets : p.tid # t

\* class c neither requests a reply nor is a reply
SelfContained(c) == _reply_class[c] < 0 /\ _request_class[c] < 0

\* C1: for every accepted reply_class configuration, _requests_outstanding[c][s]
\* is never negative, whatever packets are issued and retired.
C1_OutstandingNeverNegative ==
  \A c \in Classes, s \in Nodes : _requests_outstanding[c][s] >= 0

\* C2 as stated: every completed transaction has exactly one latency sample,
\* in every simulation state and for every value of the tail's record flag.
C2_ExactlyOneSampleAlways ==
  \A t \in Tids : Completed(t) => tid_samples[t] = 1

\* the number of samples the per-class collectors hold
RECURSIVE TotalSamples(_, _)
TotalSamples(tlat, c) ==
  IF c >= _classes THEN 0 ELSE NumSamples(tlat[c]) + TotalSamples(tlat, c + 1)

\* C2 as amended: a transaction never has more than one sample and has none
\* before it completes; retiring a request packet adds no sample; retiring the
\* terminal packet adds exactly one sample to the per-class collectors when the
\* simulation is warming up or the tail's record flag is set, and none otherwise.
C2_OneSampleWhenRecorded ==
  /\ [](\A t \in Tids : /\ tid_samples[t] <= 1
                        /\ (tid_samples[t] = 1 => Completed(t)))
  /\ [][\A p \in in_network :
          _RetirePacket(p) =>
            LET n == IF /\ _reply_class[p.cl] < 0
                        /\ (_sim_state = "warming_up" \/ p.record)
                     THEN 1 ELSE 0
            IN /\ tid_samples' = [tid_samples EXCEPT ![p.tid] = @ + n]
               /\ TotalSamples(_tlat_stats', 0) = TotalSamples(_tlat_stats, 0) + n]_vars

\* a request/reply transaction went through its whole lifecycle and left one
\* sample in the collector of a request class
C2_Witness ==
  \E t \in Tids, c \in Classes :
    /\ Completed(t)
    /\ tid_samples[t] = 1
    /\ _reply_class[c] >= 0
    /\ NumSamples(_tlat_stats[c]) = 1

\* C3: retiring a packet of a class c with reply class r >= 0 generates exactly
\* one packet of class r from the destination back to the source (same
\* transaction id, same ttime, created at atime + 1); and retiring a packet of a
\* class that is the reply class of c decrements _requests_outstanding[c] at the
\* original source and nothing else.
C3_ReplyRoundTrip ==
  [][\A p \in in_network :
       _RetirePacket(p) =>
         /\ _reply_class[p.cl] >= 0 =>
              \E record \in BOOLEAN :
                _partial_packets' =
                  [_partial_packets EXCEPT ![_reply_class[p.cl]][p.dest] =
                     Append(@, Packet(_reply_class[p.cl], p.dest, p.src, p.tid,
                                      p.ttime, _time + 1, record))]
         /\ _request_class[p.cl] >= 0 =>
              _requests_outstanding' =
                [_requests_outstanding EXCEPT ![_request_class[p.cl]][p.dest] = @ - 1]
    ]_vars

\* C4: once _qdrained[c][s] is true, only _ResetSim makes it false again.
C4_DrainMonotone ==
  [][\A c \in Classes, s \in Nodes :
       (_qdrained[c][s] /\ ~_qdrained'[c][s]) => _ResetSim]_vars

\* a pair was marked drained in an earlier cycle, the phase has moved on, and
\* _Inject has run again in the current cycle with the flag still set
C4_Witness ==
  \E c \in Classes, s \in Nodes :
    /\ _qdrained[c][s]
    /\ _sim_state # "draining"
    /\ step_pc = "network"
    /\ _time > 0
    /\ _qtime[c][s] >= _time

LiveFrom(c, s) == { p \in LivePackets : p.cl = c /\ p.src = s }

\* C8: for a self-contained class the outstanding counter of (c, s) counts the
\* packets of c from s that are under way, so it is back at its old value once
\* the packet has retired; and retiring such a packet at cycle t1 while warming
\* up or with the record flag set adds the one sample t1 - t0 to the class's
\* collector and decrements the counter of (c, s) by one.
C8_SelfContainedEndToEnd ==
  /\ [](\A c \in Classes, s \in Nodes :
          SelfContained(c) => _requests_outstanding[c][s] = Cardinality(LiveFrom(c, s)))
  /\ [][\A p \in in_network :
          (_RetirePacket(p) /\ SelfContained(p.cl)) =>
             /\ _requests_outstanding' =
                  [_requests_outstanding EXCEPT ![p.cl][p.src] = @ - 1]
             /\ (_sim_state = "warming_up" \/ p.record) =>
                  _tlat_stats' = [_tlat_stats EXCEPT ![p.cl] = Append(@, _time - p.ttime)]
    ]_vars

\* one packet of a self-contained class was issued at cycle 0 and retired at
\* cycle 1: one sample of value 1, counter back at zero
C8_Witness ==
  \E c \in Classes, s \in Nodes :
    /\ SelfContained(c)
    /\ _cur_tid = 1
    /\ LivePackets = {}
    /\ _packet_seq_no[c][s] = 1
    /\ _tlat_stats[c] = << 1 >>
    /\ _requests_outstanding[c][s] = 0

(* ------------------------------------------------------------------ *)
(* Reply-class cycles and the constructor                              *)
(* ------------------------------------------------------------------ *)

\* the class reached from c by following reply_class n times, -1 if the walk
\* leaves the classes
RECURSIVE ReplyWalk(_, _, _)
ReplyWalk(rc, c, n) ==
  IF n = 0 \/ c < 0 THEN c ELSE ReplyWalk(rc, rc[c], n - 1)

\* some class replies into itself, directly or through other classes
HasReplyCycle(rc) ==
  \E c \in Classes, n \in 1 .. _classes : ReplyWalk(rc, c, n) = c

\* C11: a reply_class array that contains a cycle is never accepted: once the
\* constructor's loop has ended, it has ended in the assertion failure.
C11_CycleIsFatal ==
  (HasReplyCycle(_reply_class) /\ ctor_pc # "loop") => ctor_pc = "abort"

(* ------------------------------------------------------------------ *)
(* Buffer calls with an index outside the lanes                        *)
(* ------------------------------------------------------------------ *)

\* indices just outside 0 .. num_vcs - 1
BadIndices == { -1, num_vcs }

\* _vc[vc]: vector::operator[] makes no range check. For an index inside the
\* vector the element is lane vc. For an index outside it the read is
\* undefined: the word found there is either no usable address (-1: the call
\* through it ends the process) or the address of any of the buffer's lanes.
VcAt(vc) == IF vc \in Lanes THEN { vc } ELSE { -1 } \cup Lanes

\* the process has died in a call through an unusable address
Crashed == buf_call.fn # "none" /\ buf_call.vc \notin Lanes /\ buf_call.fatal

\* Buffer::AddFlit(vc, f) for vc outside the lanes
AddFlitOutOfRange(vc) ==
  /\ ~Crashed
  /\ next_flit < MaxFlits
  /\ \E t \in VcAt(vc) :
       IF t < 0
       THEN /\ buf_call' = [fn |-> "AddFlit", vc |-> vc, fatal |-> TRUE]
            /\ UNCHANGED << _vc, buf_added >>
       ELSE LET r == BufferAddFlit(_vc, t, next_flit) IN
            /\ _vc' = r.vcs
            /\ buf_call' = [fn |-> "AddFlit", vc |-> vc, fatal |-> FALSE, ret |-> r.ret]
            /\ buf_added' = IF r.ret THEN [buf_added EXCEPT ![t] = Append(@, next_flit)]
                            ELSE buf_added
  /\ next_flit' = next_flit + 1
  /\ UNCHANGED buf_removed
  /\ UNCHANGED << tmVars, ctorVars, sizeVars, poVars >>

\* Buffer::RemoveFlit(vc) for vc outside the lanes (a lane found empty is not
\* followed, as for the indices inside)
RemoveFlitOutOfRange(vc) ==
  /\ ~Crashed
  /\ \E t \in VcAt(vc) :
       IF t < 0
       THEN /\ buf_call' = [fn |-> "RemoveFlit", vc |-> vc, fatal |-> TRUE]
            /\ UNCHANGED << _vc, buf_removed >>
       ELSE /\ ~BufferEmpty(_vc, t)
            /\ LET r == BufferRemoveFlit(_vc, t) IN
                 /\ _vc' = r.vcs
                 /\ buf_call' = [fn |-> "RemoveFlit", vc |-> vc, fatal |-> FALSE,
                                 ret |-> r.ret]
                 /\ buf_removed' = [buf_removed EXCEPT ![t] = Append(@, r.ret)]
  /\ UNCHANGED << buf_added, next_flit >>
  /\ UNCHANGED << tmVars, ctorVars, sizeVars, poVars >>

\* Buffer::Empty(vc) for vc outside the lanes
EmptyOutOfRange(vc) ==
  /\ ~Crashed
  /\ \E t \in VcAt(vc) :
       buf_call' = IF t < 0
                   THEN [fn |-> "Empty", vc |-> vc, fatal |-> TRUE]
                   ELSE [fn |-> "Empty", vc |-> vc, fatal |-> FALSE,
                         ret |-> BufferEmpty(_vc, t)]
  /\ UNCHANGED << _vc, buf_added, buf_removed, next_flit >>
  /\ UNCHANGED << tmVars, ctorVars, sizeVars, poVars >>

\* Buffer::Full(vc) for vc outside the lanes
FullOutOfRange(vc) ==
  /\ ~Crashed
  /\ \E t \in VcAt(vc) :
       buf_call' = IF t < 0
                   THEN [fn |-> "Full", vc |-> vc, fatal |-> TRUE]
                   ELSE [fn |-> "Full", vc |-> vc, fatal |-> FALSE,
                         ret |-> BufferFull(_vc, t)]
  /\ UNCHANGED << _vc, buf_added, buf_removed, next_flit >>
  /\ UNCHANGED << tmVars, ctorVars, sizeVars, poVars >>

\* the buffer called with any index
BufAnyNext ==
  \/ ~Crashed /\ BufNext
  \/ \E vc \in BadIndices : AddFlitOutOfRange(vc)
  \/ \E vc \in BadIndices : RemoveFlitOutOfRange(vc)
  \/ \E vc \in BadIndices : EmptyOutOfRange(vc)
  \/ \E vc \in BadIndices : FullOutOfRange(vc)

SpecBufAny == BufInit /\ [][BufAnyNext]_vars

\* C12: a Buffer operation called with an index outside 0 .. num_vcs - 1 ends
\* in a fatal error and changes no lane.
C12_OutOfRangeIsFatal ==
  /\ []((buf_call.fn # "none" /\ buf_call.vc \notin Lanes) => buf_call.fatal)
  /\ [][(buf_call'.fn # "none" /\ buf_call'.vc \notin Lanes) => _vc' = _vc]_vars

(* ------------------------------------------------------------------ *)
(* What _ResetSim and _ClearStats write and what they leave alone      *)
(* ------------------------------------------------------------------ *)

\* C13: _ResetSim sets every _qtime[c][s] to 0 and every _qdrained[c][s] to
\* false and leaves the samples of every latency collector as they are;
\* _ClearStats empties every per-class and every per-pair collector and leaves
\* every _qtime and _qdrained value as it is.
C13_ResetAndClearFrames ==
  [][/\ _ResetSim =>
          /\ \A c \in Classes, s \in Nodes : _qtime'[c][s] = 0 /\ _qdrained'[c][s] = FALSE
          /\ _tlat_stats' = _tlat_stats
          /\ _pair_tlat' = _pair_tlat
     /\ _ClearStats =>
          /\ \A c \in Classes : NumSamples(_tlat_stats'[c]) = 0
          /\ \A c \in Classes, k \in Pairs : NumSamples(_pair_tlat'[c][k]) = 0
          /\ _qtime' = _qtime
          /\ _qdrained' = _qdrained
    ]_vars

\* a transaction left a sample in cycle 0 and a timer-driven pair had its timer
\* advanced; in cycle 1 the collectors have been emptied and the timers reset
C13_Witness ==
  \E c \in Classes, s \in Nodes :
    /\ SelfContained(c)
    /\ _time = 1
    /\ step_pc = "inject"
    /\ tid_samples[0] = 1
    /\ TotalSamples(_tlat_stats, 0) = 0
    /\ _packet_seq_no[c][s] = 1
    /\ _qtime[c][s] = 0

(* ------------------------------------------------------------------ *)
(* Classes that are replied into                                       *)
(* ------------------------------------------------------------------ *)

\* C14: for a class c with _request_class[c] >= 0, _Inject leaves the pair's
\* queue, outstanding counter and sequence number alone and sets _qtime[c][s]
\* to the current cycle when the slot is empty (and leaves it otherwise); and a
\* packet of class c is added to a queue only by _RetirePacket of a packet
\* whose class has c as its reply class.
C14_RepliedIntoNeverIssued ==
  [][/\ _Inject =>
          \A c \in Classes, s \in Nodes :
            _request_class[c] >= 0 =>
              /\ _partial_packets'[c][s] = _partial_packets[c][s]
              /\ _requests_outstanding'[c][s] = _requests_outstanding[c][s]
              /\ _packet_seq_no'[c][s] = _packet_seq_no[c][s]
              /\ _qtime'[c][s] = IF _partial_packets[c][s] = << >>
                                 THEN _time ELSE _qtime[c][s]
     /\ \A c \in Classes, s \in Nodes :
          (/\ _request_class[c] >= 0
           /\ Len(_partial_packets'[c][s]) > Len(_partial_packets[c][s])) =>
            \E p \in in_network :
              /\ _RetirePacket(p)
              /\ _reply_class[p.cl] = c
              /\ p.dest = s
    ]_vars

\* a packet of a replied-into class exists although _Inject never counted one,
\* and in cycle 1 _Inject has set the timer of a pair of that class to 1
C14_Witness ==
  \E c \in Classes, s \in Nodes :
    /\ _request_class[c] >= 0
    /\ _time = 1
    /\ step_pc = "network"
    /\ _qtime[c][s] = 1
    /\ \A n \in Nodes : _requests_outstanding[c][n] = 0 /\ _packet_seq_no[c][n] = 0
    /\ \E p \in LivePackets : p.cl = c

(* ------------------------------------------------------------------ *)
(* Pairs whose pending-packet slot is occupied                         *)
(* ------------------------------------------------------------------ *)

\* C15: for a pair whose slot holds a packet when _Inject runs, the invocation
\* leaves the pair's _qtime, _qdrained, _requests_outstanding and sequence
\* number as they are and adds no packet to the pair's queue.
C15_NoDoubleIssuance ==
  [][_Inject =>
       \A c \in Classes, s \in Nodes :
         _partial_packets[c][s] # << >> =>
           /\ _qtime'[c][s] = _qtime[c][s]
           /\ _qdrained'[c][s] = _qdrained[c][s]
           /\ _requests_outstanding'[c][s] = _requests_outstanding[c][s]
           /\ _packet_seq_no'[c][s] = _packet_seq_no[c][s]
           /\ _partial_packets'[c][s] = _partial_packets[c][s]
    ]_vars

\* draining, cycle 1: _Inject has run; a pair still holding the packet it
\* issued in cycle 0 was passed over (timer still 1, not drained) while another
\* source of the same class had its timer advanced and was marked drained
C15_Witness ==
  \E c \in Classes, s \in Nodes, s2 \in Nodes :
    /\ _sim_state = "draining"
    /\ step_pc = "network"
    /\ _time = 1
    /\ _partial_packets[c][s] # << >>
    /\ Head(_partial_packets[c][s]).ctime = 0
    /\ _qtime[c][s] = 1
    /\ ~_qdrained[c][s]
    /\ _qtime[c][s2] = 2
    /\ _qdrained[c][s2]

(* ------------------------------------------------------------------ *)
(* Retirement of a terminal packet                                     *)
(* ------------------------------------------------------------------ *)

\* C16: when a packet of a class without reply class retires, one outstanding
\* counter goes down by one whatever the phase and the record flag (the request
\* class's at the destination if the class is replied into, else the class's
\* own at the packet's source); and the latency atime - ttime is appended to
\* the per-class collector and to one pair collector of the resolved class if
\* the simulation is warming up or the record flag is set, and otherwise no
\* collector changes.
C16_TerminalRetirement ==
  [][\A p \in in_network :
       (_RetirePacket(p) /\ _reply_class[p.cl] < 0) =>
         LET request_class == _request_class[p.cl]
             cl == IF request_class < 0 THEN p.cl ELSE request_class
             node == IF request_class < 0 THEN p.src ELSE p.dest
             lat == _time - p.ttime
         IN /\ _requests_outstanding' =
                 [_requests_outstanding EXCEPT ![cl][node] = @ - 1]
            /\ IF _sim_state = "warming_up" \/ p.record
               THEN /\ _tlat_stats' = [_tlat_stats EXCEPT ![cl] = Append(@, lat)]
                    /\ \E k \in Pairs :
                         _pair_tlat' = [_pair_tlat EXCEPT ![cl][k] = Append(@, lat)]
               ELSE /\ _tlat_stats' = _tlat_stats
                    /\ _pair_tlat' = _pair_tlat
    ]_vars

\* a request/reply transaction has completed without a sample: the reply
\* retired outside warm-up with its record flag clear, and the request class's
\* counter is back at zero
C16_Witness ==
  \E c \in Classes, s \in Nodes :
    /\ _reply_class[c] >= 0
    /\ _reply_class[_reply_class[c]] < 0
    /\ _packet_seq_no[c][s] = 1
    /\ _requests_outstanding[c][s] = 0
    /\ Completed(0)
    /\ tid_samples[0] = 0

(* ------------------------------------------------------------------ *)
(* The key of the per-pair collectors                                  *)
(* ------------------------------------------------------------------ *)

\* the entry _WriteClassStats prints for (i, j): _pair_tlat[c][i*_nodes+j]
PairIndex(i, j) == i * _nodes + j

\* class c is the reply class of a class that is not itself replied into
ReplyOfRequest(c) ==
  /\ _reply_class[c] < 0
  /\ _request_class[c] >= 0
  /\ _request_class[_request_class[c]] < 0

\* C17: the sample of a completed transaction goes to the pair collector at
\* index source * _nodes + dest, where source is the node that initiated the
\* transaction and dest the node it was addressed to: for a self-contained
\* class these are the retiring packet's src and dest, for a reply they are the
\* reply's dest and src; and no other pair collector changes.
C17_PairKeyedBySourceDest ==
  [][\A p \in in_network :
       (_RetirePacket(p) /\ (_sim_state = "warming_up" \/ p.record)) =>
         /\ SelfContained(p.cl) =>
              _pair_tlat' = [_pair_tlat EXCEPT
                               ![p.cl][PairIndex(p.src, p.dest)] =
                                  Append(@, _time - p.ttime)]
         /\ ReplyOfRequest(p.cl) =>
              _pair_tlat' = [_pair_tlat EXCEPT
                               ![_request_class[p.cl]][PairIndex(p.dest, p.src)] =
                                  Append(@, _time - p.ttime)]
    ]_vars

(* ------------------------------------------------------------------ *)
(* The timer loop of _Inject                                           *)
(* ------------------------------------------------------------------ *)

DrainClockCap == MaxTime + 1

\* base: ++_time at the end of a cycle of the draining loop
DrainTick ==
  /\ ~aborted
  /\ step_pc = "network"
  /\ _time' = IF _time < DrainClockCap THEN _time + 1 ELSE _time
  /\ step_pc' = "inject"
  /\ UNCHANGED << _reply_class, _request_class, _measure_stats, _sim_state,
                  _drain_time, _qtime, _qdrained, _requests_outstanding,
                  _packet_seq_no, _partial_packets, in_network, _cur_tid,
                  _tlat_stats, _pair_tlat, _overall_min_tlat,
                  _overall_avg_tlat, _overall_max_tlat, total_sims,
                  tid_samples, aborted, issue_attempts,
                  retired_recorded >>
  /\ UNCHANGED << ctorVars, sizeVars, bufVars, poVars >>

\* Draining has just begun (base: _sim_state = draining, _drain_time = _time),
\* every class is measured, no packet exists: either in cycle 0, straight after
\* construction, or in cycle MaxTime after a first cycle in which every
\* _IssuePacket call was declined and a _ResetSim.
DrainInit ==
  /\ \E rc \in AcceptedReplyClassArrays :
       ConfigIs(rc, Construct(rc).req, [c \in Classes |-> 1])
  /\ \/ /\ _time = 0
        /\ issue_attempts = [c \in Classes |-> [s \in Nodes |-> 0]]
     \/ /\ _time = MaxTime
        /\ issue_attempts =
             [c \in Classes |-> [s \in Nodes |-> IF _request_class[c] < 0 THEN 1 ELSE 0]]
  /\ _drain_time = _time
  /\ _sim_state = "draining"
  /\ step_pc = "inject"
  /\ aborted = FALSE
  /\ QueuesFresh
  /\ PacketsFresh
  /\ _tlat_stats = ClearedTlat
  /\ _pair_tlat = ClearedPairTlat
  /\ _overall_min_tlat = [c \in Classes |-> 0]
  /\ _overall_avg_tlat = [c \in Classes |-> 0]
  /\ _overall_max_tlat = [c \in Classes |-> 0]
  /\ total_sims = 0
  /\ tid_samples = [t \in Tids |-> 0]
  /\ retired_recorded = {}
  /\ CtorIdle
  /\ SizeIdle
  /\ BufIdle
  /\ PoIdle

DrainNext ==
  \/ _Inject
  \/ \E c \in Classes, source \in Nodes : NetworkAccept(c, source)
  \/ \E p \in in_network : _RetirePacket(p)
  \/ DrainTick

\* base: the draining loop runs cycle after cycle, _Inject once in each
SpecDrain ==
  DrainInit /\ [][DrainNext]_vars /\ WF_vars(_Inject) /\ WF_vars(DrainTick)

AllDrained == \A c \in Classes, s \in Nodes : _qdrained[c][s]

\* C19: in the draining phase with its deadline fixed and the cycles going on,
\* if for every pair the slot is empty again and again when _Inject is about to
\* run, then from some point on every pair, timer-driven or replied-into, is
\* marked drained; and whenever every pair is marked drained and the base
\* reports nothing outstanding, _PacketsOutstanding returns false.
C19_DrainLiveness ==
  /\ (\A c \in Classes, s \in Nodes :
        []<>(step_pc = "inject" /\ _partial_packets[c][s] = << >>))
       => <>[]AllDrained
  /\ []((AllDrained /\ ~BasePacketsOutstanding) => ~PacketsOutstandingResult.ret)

\* every pair is marked drained, among them one of a replied-into class, after
\* a transaction was started while draining; the timer of one pair is past the
\* cap of the clock
C19_Witness ==
  /\ AllDrained
  /\ _cur_tid = 1
  /\ \E c \in Classes : _request_class[c] >= 0
  /\ \E c \in Classes, s \in Nodes : _qtime[c][s] = DrainClockCap + 1
  /\ ~PacketsOutstandingResult.ret

(* ------------------------------------------------------------------ *)
(* The assertion of _UpdateOverallStats                                *)
(* ------------------------------------------------------------------ *)

\* C20: when _UpdateOverallStats runs after a trial in which every measured
\* class had a packet retire with the record flag set, its assertion holds,
\* for every accepted reply_class array; and the totals of the unmeasured
\* classes stay as they are.
C20_UpdateAssertionHolds ==
  [][_UpdateOverallStats =>
       /\ (\A c \in Classes : _measure_stats[c] # 0 => c \in retired_recorded)
            => ~aborted'
       /\ \A c \in Classes :
            _measure_stats[c] = 0 =>
              /\ _overall_min_tlat'[c] = _overall_min_tlat[c]
              /\ _overall_avg_tlat'[c] = _overall_avg_tlat[c]
              /\ _overall_max_tlat'[c] = _overall_max_tlat[c]
    ]_vars

====
